---- MODULE Spec2Model ----
(***************************************************************************)
(* Depth-limited zip archiver of payemo/py-tools.                          *)
(*                                                                         *)
(* Two variants of one utility are modelled side by side:                  *)
(*   "Archivation"  src/Archivation/make_archive.py  (earlier)             *)
(*   "archiving"    src/archiving/make_archive.py    (later)               *)
(*                                                                         *)
(* A path string is a sequence of tokens.  The token "/" is os.sep; every  *)
(* other token is one indivisible piece of a file name ("s", ".", "..",    *)
(* ".zip", "_", a timestamp).  The posixpath functions the code calls are  *)
(* written over these sequences the way posixpath computes them.           *)
(* A file system node is named by its absolute normalised path string.     *)
(***************************************************************************)
EXTENDS Integers, Sequences, FiniteSets, TLC

\* ------------------------------------------------------------------ bounds

\* The largest depth argument tried (besides the default).
MaxDepthArg == 2
\* The wall clock runs over the minutes 1..MaxMinute.
MaxMinute == 2

\* ------------------------------------------------------- program constants

\* argparse default of -d/--depth and default of do_archive's depth parameter.
DefaultDepth == 10

SEP == "/"
CURDIR == "."
PARDIR == ".."
ZIPEXT == ".zip"

\* -------------------------------------------------------------- str methods

RECURSIVE rstrip(_, _)
\* str.rstrip(ch): s without its trailing run of ch.
rstrip(s, ch) ==
    IF s # <<>> /\ s[Len(s)] = ch THEN rstrip(SubSeq(s, 1, Len(s) - 1), ch) ELSE s

RECURSIVE lstrip(_, _)
\* s without its leading run of ch.
lstrip(s, ch) ==
    IF s # <<>> /\ s[1] = ch THEN lstrip(Tail(s), ch) ELSE s

\* str.count(ch).
count(s, ch) == Cardinality({i \in 1..Len(s) : s[i] = ch})

\* 1 + str.rfind(ch): the index after the last ch, 0 when there is none
\* (python's rfind answers -1 then, and the callers add 1).
rfind1(s, ch) ==
    IF \E i \in 1..Len(s) : s[i] = ch
    THEN CHOOSE i \in 1..Len(s) : s[i] = ch /\ \A j \in (i + 1)..Len(s) : s[j] # ch
    ELSE 0

RECURSIVE split(_)
\* str.split(sep): the components between separators, empty ones kept.
split(s) ==
    IF \E i \in 1..Len(s) : s[i] = SEP
    THEN LET i == CHOOSE k \in 1..Len(s) : s[k] = SEP /\ \A j \in 1..(k - 1) : s[j] # SEP
         IN  <<SubSeq(s, 1, i - 1)>> \o split(SubSeq(s, i + 1, Len(s)))
    ELSE <<s>>

RECURSIVE sepjoin(_)
\* sep.join(comps).
sepjoin(comps) ==
    IF comps = <<>> THEN <<>>
    ELSE IF Len(comps) = 1 THEN comps[1]
    ELSE comps[1] \o <<SEP>> \o sepjoin(Tail(comps))

\* [x for x in s.split(sep) if x]
nonempty(comps) == SelectSeq(comps, LAMBDA c : c # <<>>)

\* ---------------------------------------------------------------- posixpath

\* os.path.basename.
basename(p) == SubSeq(p, rfind1(p, SEP) + 1, Len(p))

\* os.path.dirname.
dirname(p) ==
    LET head == SubSeq(p, 1, rfind1(p, SEP))
    IN  IF head # <<>> /\ (\E k \in 1..Len(head) : head[k] # SEP)
        THEN rstrip(head, SEP) ELSE head

\* os.path.join(a, b).
join(a, b) ==
    IF b # <<>> /\ b[1] = SEP THEN b
    ELSE IF a = <<>> \/ a[Len(a)] = SEP THEN a \o b
    ELSE a \o <<SEP>> \o b

RECURSIVE normcomps(_, _, _)
\* The loop of posixpath.normpath over the components.
normcomps(comps, new, initial) ==
    IF comps = <<>> THEN new
    ELSE LET c == Head(comps)
             rest == Tail(comps)
         IN  IF c = <<>> \/ c = <<CURDIR>> THEN normcomps(rest, new, initial)
             ELSE IF \/ c # <<PARDIR>>
                     \/ (initial = 0 /\ new = <<>>)
                     \/ (new # <<>> /\ new[Len(new)] = <<PARDIR>>)
                  THEN normcomps(rest, Append(new, c), initial)
             ELSE IF new # <<>>
                  THEN normcomps(rest, SubSeq(new, 1, Len(new) - 1), initial)
             ELSE normcomps(rest, new, initial)

\* os.path.normpath.  Two leading slashes are kept, three or more become one.
normpath(p) ==
    IF p = <<>> THEN <<CURDIR>>
    ELSE LET initial ==
                 IF p[1] # SEP THEN 0
                 ELSE IF Len(p) >= 2 /\ p[2] = SEP /\ ~(Len(p) >= 3 /\ p[3] = SEP)
                      THEN 2 ELSE 1
             body == sepjoin(normcomps(split(p), <<>>, initial))
             path == [i \in 1..initial |-> SEP] \o body
         IN  IF path = <<>> THEN <<CURDIR>> ELSE path

\* os.path.abspath under the process's working directory.
abspath(p, wd) == normpath(join(wd, p))

RECURSIVE commonlen(_, _)
\* len(os.path.commonprefix([a, b])) over component lists.
commonlen(a, b) ==
    IF a # <<>> /\ b # <<>> /\ Head(a) = Head(b)
    THEN 1 + commonlen(Tail(a), Tail(b)) ELSE 0

\* os.path.relpath(path, start).
relpath(path, start, wd) ==
    LET start_list == nonempty(split(abspath(start, wd)))
        path_list == nonempty(split(abspath(path, wd)))
        i == commonlen(start_list, path_list)
        rel_list == [k \in 1..(Len(start_list) - i) |-> <<PARDIR>>]
                    \o SubSeq(path_list, i + 1, Len(path_list))
    IN  IF rel_list = <<>> THEN <<CURDIR>> ELSE sepjoin(rel_list)

\* The entry name zipfile stores for archive.write(filename, arcname):
\* normalised, leading separators stripped.
arcname(name) == lstrip(normpath(name), SEP)

\* -------------------------------------------------------------- file system

\* The absolute path string of the node reached through the names in comps.
Path(comps) == <<SEP>> \o sepjoin([i \in 1..Len(comps) |-> <<comps[i]>>])

\* What a regular file holds: plain data, or a zip archive with its entry names.
Data == [kind |-> "data", entries |-> <<>>]
Zip(names) == [kind |-> "zip", entries |-> names]

InitDirs ==
    { Path(<<>>), Path(<<"s">>), Path(<<"s", "a">>), Path(<<"s", "a", "b">>),
      Path(<<"s", "a", "b", "c">>), Path(<<"o">>) }

InitFiles ==
    { Path(<<"s", "f">>), Path(<<"s", "a", "g">>), Path(<<"s", "a", "b", "h">>),
      Path(<<"s", "a", "b", "c", "k">>) }

\* The permission settings tried: everything readable, one unreadable file,
\* one unreadable directory.
UnreadableChoices ==
    { {}, {Path(<<"s", "a", "g">>)}, {Path(<<"s", "a", "b">>)} }

\* What earlier runs may have left in the file system: nothing, or the archive
\* /o/s_1.zip that the later variant wrote for /s with depth 1 in minute 1.
LeftBehindChoices ==
    { <<>>,
      [n \in {Path(<<"o">>) \o <<SEP, "s", "_", "1", ZIPEXT>>} |-> Zip(<< <<"f">> >>)] }

\* The working directories a process is started in.
WorkDirs == { Path(<<>>), Path(<<"s">>), Path(<<"o">>) }

\* The -p/--path values tried: absolute, with a trailing separator, relative,
\* the working directory, and the file system root.
SrcPaths == { Path(<<"s">>), Path(<<"s">>) \o <<SEP>>, <<"s">>, <<CURDIR>>, <<SEP>> }

\* The -o/--output_dir values tried: an existing directory, a directory to
\* create, a directory inside the source tree, the working directory, and a
\* directory that cannot be created (its parent is a regular file).
OutDirs ==
    { Path(<<"o">>), Path(<<"n">>), Path(<<"s", "a">>), <<CURDIR>>,
      Path(<<"s", "f", "n">>) }

Depths == (0..MaxDepthArg) \cup {DefaultDepth}

VARIABLES
    dirs,          \* the directories of the file system (absolute path strings)
    files,         \* regular file |-> content
    unreadable,    \* nodes the process has no read permission on
    cwd,           \* os.getcwd() of the running process
    now,           \* the wall clock, in minutes
    pc,            \* position in do_archive
    variant,       \* which make_archive.py runs
    entry,         \* "main" (command line) or "direct" (do_archive called)
    args_depth,    \* args.depth as argparse parsed it
    src_path,      \* path / src_path
    output_dir,    \* output_dir (later variant)
    depth,         \* do_archive's depth parameter
    archive_name,
    archive_path,
    archive,       \* the ZipFile object
    stack,         \* os.walk: directories still to list
    root,          \* os.walk: the directory the loop body runs for
    pending,       \* the `files` of root not yet written
    visited,       \* every root os.walk listed in this invocation
    exc,           \* the exception in flight or last raised
    out,           \* what the invocation printed last
    result,        \* how the invocation ended
    dirs0, files0  \* the file system when the invocation started

vars == << dirs, files, unreadable, cwd, now, pc, variant, entry, args_depth,
           src_path, output_dir, depth, archive_name, archive_path, archive,
           stack, root, pending, visited, exc, out, result, dirs0, files0 >>

fsvars == << dirs, files >>
walkvars == << stack, root, pending, visited >>
callvars == << cwd, variant, entry, args_depth, depth, dirs0, files0, unreadable >>

\* A local name that no assignment has bound yet.
Unbound == <<"<unbound>">>

NoArchive == [open |-> FALSE, node |-> Unbound, entries |-> <<>>]

\* os.path.exists.
exists(p) == abspath(p, cwd) \in dirs \cup DOMAIN files

\* The entries of directory node.
Children(node) == {n \in dirs \cup DOMAIN files : n # node /\ dirname(n) = node}

\* Every proper ancestor of an absolute node, the root included.
RECURSIVE Ancestors(_)
Ancestors(node) ==
    IF dirname(node) = node THEN {} ELSE {dirname(node)} \cup Ancestors(dirname(node))

\* os.scandir(node) succeeds.
CanList(node) == node \in dirs /\ node \notin unreadable

\* os.access(path, os.R_OK).
access(p) == exists(p) /\ abspath(p, cwd) \notin unreadable

\* open(path, 'wb') succeeds: the parent is a directory, the path is none.
CanCreate(node) == dirname(node) \in dirs /\ node \notin dirs

\* All the orders in which scandir may hand out the names in S.
Orders(S) ==
    {o \in [1..Cardinality(S) -> S] : \A i, j \in 1..Cardinality(S) : o[i] = o[j] => i = j}

\* files with node bound to content.
WriteFile(fs, node, content) ==
    [n \in DOMAIN fs \cup {node} |-> IF n = node THEN content ELSE fs[n]]

\* files without node.
RemoveFile(fs, node) == [n \in DOMAIN fs \ {node} |-> fs[n]]

\* datetime.now().strftime("%Y%m%d%H%M").
strftime(t) == <<ToString(t)>>

TypeOK ==
    /\ pc \in {"idle", "prepare", "validate", "open", "walk", "except", "done"}
    /\ variant \in {"Archivation", "archiving"}
    /\ entry \in {"main", "direct"}
    /\ result \in {"none", "returned", "raised"}
    /\ out \in {"none", "success", "error"}
    /\ now \in 1..MaxMinute

\* The utility runs once per process and keeps nothing between runs but the
\* file system.  A run starts from the tree above, alone or together with what
\* an earlier run left behind, at some minute of the clock.
Init ==
    /\ dirs = InitDirs
    /\ \E left \in LeftBehindChoices :
         /\ files = [n \in InitFiles \cup DOMAIN left |->
                        IF n \in DOMAIN left THEN left[n] ELSE Data]
         /\ files0 = files
    /\ unreadable \in UnreadableChoices
    /\ cwd = Path(<<>>)
    /\ now \in 1..MaxMinute
    /\ pc = "idle"
    /\ variant = "archiving"
    /\ entry = "direct"
    /\ args_depth = DefaultDepth
    /\ src_path = <<>>
    /\ output_dir = <<>>
    /\ depth = DefaultDepth
    /\ archive_name = Unbound
    /\ archive_path = Unbound
    /\ archive = NoArchive
    /\ stack = <<>>
    /\ root = <<>>
    /\ pending = {}
    /\ visited = {}
    /\ exc = "none"
    /\ out = "none"
    /\ result = "none"
    /\ dirs0 = InitDirs

\* ------------------------------------------------------------ entry points

\* What every invocation starts from: fresh locals, the file system noted.
Enter(v, e, wd, p, o, d, ad) ==
    /\ pc = "idle"
    /\ variant' = v
    /\ entry' = e
    /\ cwd' = wd
    /\ src_path' = p
    /\ output_dir' = o
    /\ depth' = d
    /\ args_depth' = ad
    /\ archive_name' = Unbound
    /\ archive_path' = Unbound
    /\ archive' = NoArchive
    /\ stack' = <<>>
    /\ root' = <<>>
    /\ pending' = {}
    /\ visited' = {}
    /\ exc' = "none"
    /\ out' = "none"
    /\ result' = "none"
    /\ dirs0' = dirs
    /\ files0' = files
    /\ pc' = "prepare"
    /\ UNCHANGED << dirs, files, unreadable, now >>

\* Archivation main(): parses -p and -d, then calls do_archive(args.path):
\* depth is left to do_archive's default.
Main_Archivation ==
    \E wd \in WorkDirs : \E p \in SrcPaths \cup {wd}, d \in Depths :
        Enter("Archivation", "main", wd, p, <<>>, DefaultDepth, d)

\* archiving main(): do_archive(args.path, args.output_dir, args.depth).
Main_archiving ==
    \E wd \in WorkDirs : \E p \in SrcPaths \cup {wd}, o \in OutDirs \cup {wd}, d \in Depths :
        Enter("archiving", "main", wd, p, o, d, d)

\* do_archive(path, depth) of the earlier variant, called by a program.
Call_Archivation ==
    \E wd \in WorkDirs, p \in SrcPaths, d \in Depths :
        Enter("Archivation", "direct", wd, p, <<>>, d, DefaultDepth)

\* do_archive(src_path, output_dir, depth) of the later variant, called by a program.
Call_archiving ==
    \E wd \in WorkDirs, p \in SrcPaths, o \in OutDirs, d \in Depths :
        Enter("archiving", "direct", wd, p, o, d, DefaultDepth)

\* ---------------------------------------------------- Archivation.do_archive

\* archive_name = os.path.basename(path.rstrip('/')) + '.zip'
Prepare_Archivation ==
    /\ pc = "prepare" /\ variant = "Archivation"
    /\ archive_name' = basename(rstrip(src_path, "/")) \o <<ZIPEXT>>
    /\ pc' = "validate"
    /\ UNCHANGED << fsvars, walkvars, callvars, now, src_path, output_dir,
                    archive_path, archive, exc, out, result >>

\* try: normpath, the depth check, archive_path.
Validate_Archivation ==
    /\ pc = "validate" /\ variant = "Archivation"
    /\ src_path' = normpath(src_path)
    /\ IF depth < 1
       THEN /\ exc' = "ValueError"
            /\ pc' = "except"
            /\ UNCHANGED archive_path
       ELSE /\ archive_path' = join(dirname(normpath(src_path)), archive_name)
            /\ pc' = "open"
            /\ UNCHANGED exc
    /\ UNCHANGED << fsvars, walkvars, callvars, now, output_dir, archive_name,
                    archive, out, result >>

\* ------------------------------------------------------ archiving.do_archive

\* os.makedirs(name): every missing ancestor and name itself become directories;
\* it raises when an ancestor is a regular file.
makedirs_fails(node) == \E a \in Ancestors(node) : a \in DOMAIN files
makedirs(ds, node) == ds \cup Ancestors(node) \cup {node}

\* Lines 35-48, before the try: normalise, create the output directory, name
\* the archive after the source and the minute.
Prepare_archiving ==
    /\ pc = "prepare" /\ variant = "archiving"
    /\ src_path' = normpath(src_path)
    /\ output_dir' = normpath(output_dir)
    /\ IF ~exists(normpath(output_dir)) /\ makedirs_fails(abspath(normpath(output_dir), cwd))
       THEN \* os.makedirs raises outside the try: the exception leaves do_archive
            /\ exc' = "OSError"
            /\ result' = "raised"
            /\ pc' = "done"
            /\ UNCHANGED << dirs, archive_name, archive_path >>
       ELSE /\ dirs' = IF exists(normpath(output_dir)) THEN dirs
                       ELSE makedirs(dirs, abspath(normpath(output_dir), cwd))
            /\ archive_name' = basename(rstrip(normpath(src_path), SEP))
                                 \o <<"_">> \o strftime(now) \o <<ZIPEXT>>
            /\ archive_path' = join(normpath(output_dir),
                                    basename(rstrip(normpath(src_path), SEP))
                                      \o <<"_">> \o strftime(now) \o <<ZIPEXT>>)
            /\ pc' = "validate"
            /\ UNCHANGED << exc, result >>
    /\ UNCHANGED << files, walkvars, callvars, now, archive, out >>

\* try: the depth check, then check_source_dir_permission.
Validate_archiving ==
    /\ pc = "validate" /\ variant = "archiving"
    /\ IF depth < 1
       THEN exc' = "ValueError" /\ pc' = "except"
       ELSE IF ~access(src_path)
       THEN exc' = "PermissionError" /\ pc' = "except"
       ELSE pc' = "open" /\ UNCHANGED exc
    /\ UNCHANGED << fsvars, walkvars, callvars, now, src_path, output_dir,
                    archive_name, archive_path, archive, out, result >>

\* ------------------------------------------------------- shared by the two

\* The path handed to zipfile.ZipFile: archive_name in the earlier variant
\* (relative to the working directory), archive_path in the later one.
ZipFileArg == IF variant = "Archivation" THEN archive_name ELSE archive_path

\* with zipfile.ZipFile(..., 'w', ...) as archive: creates or truncates the file;
\* os.walk(path) is a generator, so nothing is listed yet.
Open ==
    /\ pc = "open"
    /\ LET node == abspath(ZipFileArg, cwd)
       IN  IF CanCreate(node)
           THEN /\ files' = WriteFile(files, node, Zip(<<>>))
                /\ archive' = [open |-> TRUE, node |-> node, entries |-> <<>>]
                /\ stack' = <<src_path>>
                /\ pc' = "walk"
                /\ UNCHANGED exc
           ELSE /\ exc' = "OSError"
                /\ pc' = "except"
                /\ UNCHANGED << files, archive, stack >>
    /\ UNCHANGED << dirs, root, pending, visited, callvars, now, src_path, output_dir,
                    archive_name, archive_path, out, result >>

\* A slip in current_depth: the separators of the whole visited path are
\* counted, the source path's own included.
current_depth_whole(r, path) == count(r, SEP)

\* current_depth = root[len(path):].count(os.sep)
current_depth(r, path) == count(SubSeq(r, Len(path) + 1, Len(r)), SEP)

\* The loop body's branch on files: written when current_depth < depth.
walk_files(cd, d, names) == IF cd < d THEN names ELSE {}

\* A slip in the else branch: dirs is left as scandir filled it.
walk_dirs_unpruned(cd, d, names) == names

\* The loop body's branch on dirs: dirs[:] = [] when current_depth >= depth.
walk_dirs(cd, d, names) == IF cd < d THEN names ELSE {}

\* One step of os.walk and the head of the loop body: the next directory is
\* listed (a directory that cannot be listed is skipped silently, onerror being
\* None), its depth is computed, and its subdirectories, unless pruned, are
\* queued in scandir's order.
Walk ==
    /\ pc = "walk" /\ pending = {} /\ stack # <<>>
    /\ LET top == Head(stack)
           node == abspath(top, cwd)
           cd == current_depth(top, src_path)
           subdirs == {basename(n) : n \in Children(node) \cap dirs}
           regular == {basename(n) : n \in Children(node) \cap DOMAIN files}
       IN  IF ~CanList(node)
           THEN /\ stack' = Tail(stack)
                /\ UNCHANGED << root, pending, visited >>
           ELSE /\ \E order \in Orders(walk_dirs(cd, depth, subdirs)) :
                     stack' = [i \in 1..Len(order) |-> join(top, order[i])] \o Tail(stack)
                /\ root' = top
                /\ pending' = walk_files(cd, depth, regular)
                /\ visited' = visited \cup {top}
    /\ UNCHANGED << fsvars, callvars, now, pc, src_path, output_dir, archive_name,
                    archive_path, archive, exc, out, result >>

\* archive.write(file_path, os.path.relpath(file_path, path)) for one file of
\* root.  Reading an unreadable file raises.  Reading the archive's own file
\* while it is being written depends on buffering: it ends, or it feeds on its
\* own output until the write fails.
Write ==
    /\ pc = "walk" /\ pending # {}
    /\ \E file \in pending :
         LET file_path == join(root, file)
             node == abspath(file_path, cwd)
             name == arcname(relpath(file_path, src_path, cwd))
         IN  /\ pending' = pending \ {file}
             /\ \/ /\ node \notin unreadable
                   /\ archive' = [archive EXCEPT !.entries =
                                      Append(@, [name |-> name, node |-> node])]
                   /\ UNCHANGED << pc, exc >>
                \/ /\ node \in unreadable \/ node = archive.node
                   /\ exc' = IF node \in unreadable THEN "PermissionError" ELSE "OSError"
                   /\ pc' = "except"
                   /\ UNCHANGED archive
    /\ UNCHANGED << fsvars, stack, root, visited, callvars, now, src_path, output_dir,
                    archive_name, archive_path, out, result >>

\* ZipFile.__exit__: the archive is closed, its directory of entries written.
close(fs, zf) ==
    IF zf.open THEN WriteFile(fs, zf.node, Zip([i \in 1..Len(zf.entries) |-> zf.entries[i].name]))
    ELSE fs

\* The walk is over: the with block closes the archive, the summary is printed.
Finish ==
    /\ pc = "walk" /\ pending = {} /\ stack = <<>>
    /\ files' = close(files, archive)
    /\ archive' = [archive EXCEPT !.open = FALSE]
    /\ out' = "success"
    /\ result' = "returned"
    /\ pc' = "done"
    /\ UNCHANGED << dirs, walkvars, callvars, now, src_path, output_dir, archive_name,
                    archive_path, exc >>

\* A slip in the handler: the message is printed and nothing is removed.
cleanup_skipped(fs, p, wd) == fs

\* if os.path.exists(archive_path): os.remove(archive_path)
cleanup(fs, p, wd) ==
    IF abspath(p, wd) \in DOMAIN fs THEN RemoveFile(fs, abspath(p, wd)) ELSE fs

\* except Exception as ex: an exception raised inside the with block has closed
\* the archive on its way out.  The handler reads archive_path: in the earlier
\* variant a failure before line 40 leaves it unbound and the handler itself
\* raises UnboundLocalError.
Except ==
    /\ pc = "except"
    /\ archive' = [archive EXCEPT !.open = FALSE]
    /\ IF archive_path = Unbound
       THEN /\ exc' = "UnboundLocalError"
            /\ result' = "raised"
            /\ files' = close(files, archive)
            /\ UNCHANGED out
       ELSE /\ files' = cleanup(close(files, archive), archive_path, cwd)
            /\ out' = "error"
            /\ result' = "returned"
            /\ UNCHANGED exc
    /\ pc' = "done"
    /\ UNCHANGED << dirs, walkvars, callvars, now, src_path, output_dir, archive_name,
                    archive_path >>

Next ==
    \/ Main_Archivation
    \/ Main_archiving
    \/ Call_Archivation
    \/ Call_archiving
    \/ Prepare_Archivation
    \/ Validate_Archivation
    \/ Prepare_archiving
    \/ Validate_archiving
    \/ Open
    \/ Walk
    \/ Write
    \/ Finish
    \/ Except

Spec == Init /\ [][Next]_vars

\* -------------------------------------------------------------------- claims

\* The source root as a node of the file system.
SrcNode == abspath(src_path, cwd)

\* Node n lies inside the tree rooted at node r.
Under(n, r) == r \in Ancestors(n)

\* How many directory levels node n lies below node r.
RelDepth(n, r) == Len(nonempty(split(n))) - Len(nonempty(split(r)))

\* The path of node n relative to node r, for n inside r's tree.
RelName(n, r) ==
    sepjoin(SubSeq(nonempty(split(n)), Len(nonempty(split(r))) + 1, Len(nonempty(split(n)))))

\* Every node of the source tree, the root included, is readable.
TreeReadable == \A u \in unreadable : u # SrcNode /\ ~Under(u, SrcNode)

\* The places in the archive where node n was written.
EntriesOf(n) == {i \in 1..Len(archive.entries) : archive.entries[i].node = n}

\* The invocation got as far as creating the archive file.
Opened == archive.node # Unbound

\* A regular file of the source tree, as it was when the invocation started,
\* whose directory lies less than depth levels below the source root.
Shallow(n) ==
    /\ n \in DOMAIN files0
    /\ Under(n, SrcNode)
    /\ RelDepth(dirname(n), SrcNode) < depth

C2_NoDeepFileArchived ==
    depth >= 1 =>
        \A i \in 1..Len(archive.entries) :
            RelDepth(dirname(archive.entries[i].node), SrcNode) < depth

\* C3 as claimed: with max_depth >= 1, no directory max_depth or more levels
\* below the source root is ever listed by the walk.
C3_NoDirAtBoundListed ==
    depth >= 1 => \A r \in visited : RelDepth(abspath(r, cwd), SrcNode) < depth

\* C3 as amended: no directory whose depth, counted as the traversal counts it,
\* exceeds max_depth is ever listed.
C3_NoDirBeyondBoundListed ==
    depth >= 1 => \A r \in visited : current_depth(r, src_path) <= depth

\* C3 happens: the walk is over, a directory exactly max_depth levels down was
\* listed, and a directory below it exists that was not.
C3_Witness ==
    /\ pc = "done" /\ out = "success" /\ depth >= 1
    /\ \E r \in visited :
         /\ current_depth(r, src_path) = depth
         /\ RelDepth(abspath(r, cwd), SrcNode) = depth
         /\ \E d \in dirs : dirname(d) = abspath(r, cwd) /\ d # abspath(r, cwd)
                            /\ \A q \in visited : abspath(q, cwd) # d

\* C4: in the later variant a run ends either in success with the archive in
\* place, or in a reported failure with no file at the archive path; so after
\* any error once the archive was opened, the archive is gone.
C4_FailureLeavesNoArchive ==
    (pc = "done" /\ variant = "archiving" /\ archive_path # Unbound) =>
        /\ out = "success" => abspath(archive_path, cwd) \in DOMAIN files
        /\ out # "success" => abspath(archive_path, cwd) \notin DOMAIN files

\* C4 happens: the later variant failed in the middle of the traversal, after
\* entries had been written, and the archive is gone.
C4_Witness ==
    /\ pc = "done" /\ variant = "archiving" /\ Opened /\ out = "error"
    /\ archive.entries # <<>>
    /\ abspath(archive_path, cwd) \notin DOMAIN files

\* C5: in both variants no exception leaves do_archive: every failure is caught
\* and reported, and the call returns normally.
C5_NoExceptionEscapes == result # "raised"

\* C6: a call with max_depth < 1 leaves the file system as it found it.
C6_InvalidDepthTouchesNothing ==
    (depth < 1 /\ pc # "idle") => (dirs = dirs0 /\ files = files0)

\* C7: from either command line, do_archive runs with the depth given by
\* -d/--depth (10 when the flag is omitted).
C7_DepthFlagReachesDoArchive ==
    (entry = "main" /\ pc # "idle") => depth = args_depth

\* C8: in the earlier variant, after a failure once the archive was opened, the
\* handler removed the very path the archive was opened at and no partial
\* archive remains.
C8_EarlierRemovesWhatItOpened ==
    (pc = "done" /\ variant = "Archivation" /\ Opened /\ out = "error") =>
        /\ abspath(archive_path, cwd) = archive.node
        /\ archive.node \notin DOMAIN files

\* C9: in the later variant a run that fails before opening the archive leaves
\* every file that existed before it in place with its content.
C9_KeepsWhatItDidNotCreate ==
    (pc = "done" /\ variant = "archiving" /\ ~Opened) =>
        \A n \in DOMAIN files0 : n \in DOMAIN files /\ files[n] = files0[n]

\* C10: in the later variant every entry of the archive is a regular file that
\* was in the source tree before the run, and none is the archive itself.
C10_ArchiveNeverHoldsItself ==
    variant = "archiving" =>
        \A i \in 1..Len(archive.entries) :
            /\ archive.entries[i].node \in DOMAIN files0
            /\ Under(archive.entries[i].node, SrcNode)
            /\ archive.entries[i].node # archive.node

====
